---- MODULE Spec2Model ----
(***************************************************************************)
(* Market-price estimation and deal scoring of the apartment dashboard:    *)
(* scripts/calc_market_price.py (bracket classifiers, comparable-sales     *)
(* query, tiered fallback resolver) and scripts/calc_deal_score.py (the    *)
(* nine adjustment factors, the score and the batch update of listings),   *)
(* over the SQLite store of scripts/utils/db.py.                           *)
(*                                                                         *)
(* Numbers.  Python None / SQL NULL is the value None (numbers) or NoneStr *)
(* (text).  Floor areas are REAL: they are held in units of 1/AreaUnit     *)
(* square metre.  Factors are held in units of 1/FactorUnit (a rational     *)
(* with that denominator).  A deal score is held in hundredths of a        *)
(* percent, which is what round(score, 2) keeps.  Arithmetic is exact:     *)
(* binary floating point error is not modelled.                            *)
(***************************************************************************)
EXTENDS Integers, Sequences, FiniteSets, TLC

\* ------------------------------------------------------------------ bounds
MaxTransactions == 15
MaxGroups == 2
MaxListings == 2

\* ------------------------------------------------------- values and NULL
None == -1
NoneStr == "None"
AreaUnit == 2
FactorUnit == 10

\* The year datetime.now().year returns when the store is created, and the
\* years the model runs through.
StartYear == 2026
Years == {StartYear, StartYear + 1}

\* ------------------------------------------------------ integer helpers
RECURSIVE SumOver(_, _)
\* sum of f[x] over the finite set S
SumOver(S, f) ==
  IF S = {} THEN 0
  ELSE LET x == CHOOSE y \in S : TRUE
       IN  f[x] + SumOver(S \ {x}, f)

Abs(n) == IF n < 0 THEN -n ELSE n

\* Python int(num / den) for den > 0: truncation toward zero
IntTrunc(num, den) ==
  IF num >= 0 THEN num \div den ELSE -((-num) \div den)

\* -------------------------------------------------- bracket classifiers
\* The classifier with the band limits taken as exclusive.
AgeBracketExclusive(building_year, year) ==
  IF building_year = None THEN NoneStr
  ELSE LET age == year - building_year
       IN  IF age < 10 THEN "0-10"
           ELSE IF age < 20 THEN "11-20"
           ELSE IF age < 30 THEN "21-30"
           ELSE "31+"

\* calc_market_price.get_age_bracket; year is the value of datetime.now().year
get_age_bracket(building_year, year) ==
  IF building_year = None THEN NoneStr
  ELSE LET age == year - building_year
       IN  IF age <= 10 THEN "0-10"
           ELSE IF age <= 20 THEN "11-20"
           ELSE IF age <= 30 THEN "21-30"
           ELSE "31+"

\* calc_market_price.get_area_bracket; area in 1/AreaUnit square metres
get_area_bracket(area) ==
  IF area = None THEN NoneStr
  ELSE IF area < 40 * AreaUnit THEN NoneStr
  ELSE IF area <= 50 * AreaUnit THEN "40-50"
  ELSE IF area <= 60 * AreaUnit THEN "51-60"
  ELSE IF area <= 70 * AreaUnit THEN "61-70"
  ELSE IF area <= 80 * AreaUnit THEN "71-80"
  ELSE "81+"

\* calc_market_price.get_age_range: <<min_year, max_year>>
get_age_range(age_bracket, year) ==
  LET ages == IF age_bracket = "0-10" THEN <<0, 10>>
              ELSE IF age_bracket = "11-20" THEN <<11, 20>>
              ELSE IF age_bracket = "21-30" THEN <<21, 30>>
              ELSE <<31, 100>>
  IN  <<year - ages[2], year - ages[1]>>

\* calc_market_price.get_area_range: <<min_area, max_area>> in 1/AreaUnit m2
get_area_range(area_bracket) ==
  IF area_bracket = "40-50" THEN <<40 * AreaUnit, 50 * AreaUnit>>
  ELSE IF area_bracket = "51-60" THEN <<51 * AreaUnit, 60 * AreaUnit>>
  ELSE IF area_bracket = "61-70" THEN <<61 * AreaUnit, 70 * AreaUnit>>
  ELSE IF area_bracket = "71-80" THEN <<71 * AreaUnit, 80 * AreaUnit>>
  ELSE <<81 * AreaUnit, 999 * AreaUnit>>

\* ------------------------------------------------------ the transaction table
\* A row of table transactions (init_db.py), columns the resolver reads.
Tx(w, s, y, a, p) ==
  [ward_name |-> w, station_name |-> s, building_year |-> y, area |-> a,
   unit_price |-> p]

\* The table is a bag of rows: a function from the rows present to how many
\* copies the table holds.
EmptyTable == << >>

BagAdd(bag, k, n) ==
  IF k \in DOMAIN bag THEN [bag EXCEPT ![k] = @ + n] ELSE bag @@ (k :> n)

BagSize(bag) == SumOver(DOMAIN bag, bag)

\* sorted(data)[k - 1] of a bag of numbers: the k-th smallest, 1 <= k <= size
KthSmallest(bag, k) ==
  CHOOSE p \in DOMAIN bag :
    /\ SumOver({q \in DOMAIN bag : q <= p}, bag) >= k
    /\ SumOver({q \in DOMAIN bag : q < p}, bag) < k

\* The median taken as sorted(prices)[n // 2] whatever n is.
MedianUpper(prices) ==
  KthSmallest(prices, BagSize(prices) \div 2 + 1)

\* int(statistics.mean(prices)) in the place of the median.
MeanOf(prices) == SumOver(DOMAIN prices, [p \in DOMAIN prices |-> p * prices[p]])
                    \div BagSize(prices)

\* int(statistics.median(prices)) for a non-empty bag of prices >= 0
median(prices) ==
  LET n == BagSize(prices)
  IN  IF n % 2 = 1 THEN KthSmallest(prices, n \div 2 + 1)
      ELSE IntTrunc(KthSmallest(prices, n \div 2)
                     + KthSmallest(prices, n \div 2 + 1), 2)

\* Python truthiness of an optional text and of an optional number
Truthy(s) == s # NoneStr /\ s # ""
TruthyNum(n) == n # None /\ n # 0

\* The query whose ward-wide form selects only the rows without a station.
QueryStationless(txs, ward_name, station_name, min_year, max_year, min_area, max_area) ==
  LET inYear(k) == /\ k.building_year # None
                   /\ min_year <= k.building_year /\ k.building_year <= max_year
      inArea(k) == /\ k.area # None
                   /\ min_area <= k.area /\ k.area <= max_area
      rows ==
        {k \in DOMAIN txs :
           /\ k.ward_name = ward_name
           /\ k.station_name = station_name
           /\ inYear(k)
           /\ min_area # None => inArea(k)
           /\ k.unit_price # None}
  IN  [p \in {k.unit_price : k \in rows} |->
         SumOver({k \in rows : k.unit_price = p}, txs)]

\* calc_market_price.query_unit_prices: the bag of unit_price values of the
\* rows its SELECT returns.  A NULL column satisfies neither = nor BETWEEN.
query_unit_prices(txs, ward_name, station_name, min_year, max_year, min_area, max_area) ==
  LET inYear(k) == /\ k.building_year # None
                   /\ min_year <= k.building_year /\ k.building_year <= max_year
      inArea(k) == /\ k.area # None
                   /\ min_area <= k.area /\ k.area <= max_area
      rows ==
        IF Truthy(station_name) /\ min_area # None THEN
          {k \in DOMAIN txs :
             /\ k.ward_name = ward_name /\ k.station_name = station_name
             /\ inYear(k) /\ inArea(k) /\ k.unit_price # None}
        ELSE IF Truthy(station_name) THEN
          {k \in DOMAIN txs :
             /\ k.ward_name = ward_name /\ k.station_name = station_name
             /\ inYear(k) /\ k.unit_price # None}
        ELSE IF min_area # None THEN
          {k \in DOMAIN txs :
             /\ k.ward_name = ward_name
             /\ inYear(k) /\ inArea(k) /\ k.unit_price # None}
        ELSE
          {k \in DOMAIN txs :
             /\ k.ward_name = ward_name /\ inYear(k) /\ k.unit_price # None}
  IN  [p \in {k.unit_price : k \in rows} |->
         SumOver({k \in rows : k.unit_price = p}, txs)]

\* ------------------------------------------------------ the fallback resolver
\* What a call returns: (price, sample_count, tier), or raised = TRUE when
\* the call ends in an exception instead of returning.
Returns(price, n, tier) ==
  [price |-> price, sample_count |-> n, tier |-> tier, raised |-> FALSE]
Raises == [price |-> None, sample_count |-> 0, tier |-> 0, raised |-> TRUE]

\* The result counting the distinct unit prices.
PriceOfDistinct(prices, area, tier) ==
  IF area = None THEN Raises
  ELSE Returns(IntTrunc(median(prices) * area, AreaUnit),
               Cardinality(DOMAIN prices), tier)

\* int(median * area): a TypeError when area is None
PriceOf(prices, area, tier) ==
  IF area = None THEN Raises
  ELSE Returns(IntTrunc(median(prices) * area, AreaUnit), BagSize(prices), tier)

\* The resolver without the tier skipping rule: every tier is queried.
ResolveNoSkip(txs, year, ward_name, station_name, building_year, area) ==
  LET age_bracket == get_age_bracket(building_year, year)
      area_bracket == get_area_bracket(area)
  IN
  IF age_bracket = NoneStr THEN Returns(None, 0, 5)
  ELSE
    LET yr == get_age_range(age_bracket, year)
        ar == IF area_bracket # NoneStr THEN get_area_range(area_bracket)
              ELSE <<None, None>>
        p1 == query_unit_prices(txs, ward_name, station_name, yr[1], yr[2], ar[1], ar[2])
        p2 == query_unit_prices(txs, ward_name, station_name, yr[1], yr[2], None, None)
        p3 == query_unit_prices(txs, ward_name, NoneStr, yr[1], yr[2], ar[1], ar[2])
        p4 == query_unit_prices(txs, ward_name, NoneStr, yr[1], yr[2], None, None)
    IN
    IF BagSize(p1) >= 20 THEN PriceOf(p1, area, 1)
    ELSE IF BagSize(p2) >= 15 THEN PriceOf(p2, area, 2)
    ELSE IF BagSize(p3) >= 10 THEN PriceOf(p3, area, 3)
    ELSE IF BagSize(p4) >= 5 THEN PriceOf(p4, area, 4)
    ELSE Returns(None, BagSize(p4), 5)

\* The resolver trying the ward tiers before the station tiers.
ResolveWardFirst(txs, year, ward_name, station_name, building_year, area) ==
  LET age_bracket == get_age_bracket(building_year, year)
      area_bracket == get_area_bracket(area)
  IN
  IF age_bracket = NoneStr THEN Returns(None, 0, 5)
  ELSE
    LET yr == get_age_range(age_bracket, year)
        ar == IF area_bracket # NoneStr THEN get_area_range(area_bracket)
              ELSE <<None, None>>
        hasStation == Truthy(station_name)
        hasArea == area_bracket # NoneStr
        p1 == query_unit_prices(txs, ward_name, station_name, yr[1], yr[2], ar[1], ar[2])
        p2 == query_unit_prices(txs, ward_name, station_name, yr[1], yr[2], None, None)
        p3 == query_unit_prices(txs, ward_name, NoneStr, yr[1], yr[2], ar[1], ar[2])
        p4 == query_unit_prices(txs, ward_name, NoneStr, yr[1], yr[2], None, None)
    IN
    IF hasArea /\ BagSize(p3) >= 10 THEN PriceOf(p3, area, 3)
    ELSE IF BagSize(p4) >= 5 THEN PriceOf(p4, area, 4)
    ELSE IF hasStation /\ hasArea /\ BagSize(p1) >= 20 THEN PriceOf(p1, area, 1)
    ELSE IF hasStation /\ BagSize(p2) >= 15 THEN PriceOf(p2, area, 2)
    ELSE Returns(None, BagSize(p4), 5)

\* calc_market_price.calc_market_price_with_fallback.  txs is the table its
\* connection reads, year the value of datetime.now().year.
calc_market_price_with_fallback(txs, year, ward_name, station_name, building_year, area) ==
  LET age_bracket == get_age_bracket(building_year, year)
      area_bracket == get_area_bracket(area)
  IN
  IF age_bracket = NoneStr THEN Returns(None, 0, 5)
  ELSE
    LET yr == get_age_range(age_bracket, year)
        ar == IF area_bracket # NoneStr THEN get_area_range(area_bracket)
              ELSE <<None, None>>
        hasStation == Truthy(station_name)
        hasArea == area_bracket # NoneStr
        p1 == query_unit_prices(txs, ward_name, station_name, yr[1], yr[2], ar[1], ar[2])
        p2 == query_unit_prices(txs, ward_name, station_name, yr[1], yr[2], None, None)
        p3 == query_unit_prices(txs, ward_name, NoneStr, yr[1], yr[2], ar[1], ar[2])
        p4 == query_unit_prices(txs, ward_name, NoneStr, yr[1], yr[2], None, None)
    IN
    IF hasStation /\ hasArea /\ BagSize(p1) >= 20 THEN PriceOf(p1, area, 1)
    ELSE IF hasStation /\ BagSize(p2) >= 15 THEN PriceOf(p2, area, 2)
    ELSE IF hasArea /\ BagSize(p3) >= 10 THEN PriceOf(p3, area, 3)
    ELSE IF BagSize(p4) >= 5 THEN PriceOf(p4, area, 4)
    ELSE Returns(None, BagSize(p4), 5)

\* calc_market_price.get_market_price: the price of the resolver's result
get_market_price(txs, year, ward_name, station_name, building_year, area) ==
  LET r == calc_market_price_with_fallback(txs, year, ward_name, station_name,
                                           building_year, area)
  IN  IF r.raised THEN Raises ELSE Returns(r.price, None, None)

\* What calc_median_unit_price returns: (median, sample count, whether the
\* ward-wide query was used)
Aggregate(median_unit_price, n, ward_fallback) ==
  [median |-> median_unit_price, sample_count |-> n,
   ward_fallback |-> ward_fallback]

\* calc_market_price.calc_median_unit_price (min_sample_count >= 1)
calc_median_unit_price(txs, year, ward_name, station_name, age_bracket, area_bracket, min_sample_count) ==
  LET yr == get_age_range(age_bracket, year)
      ar == get_area_range(area_bracket)
      ps == query_unit_prices(txs, ward_name, station_name, yr[1], yr[2], ar[1], ar[2])
      pw == query_unit_prices(txs, ward_name, NoneStr, yr[1], yr[2], ar[1], ar[2])
  IN  IF Truthy(station_name) /\ BagSize(ps) >= min_sample_count
      THEN Aggregate(median(ps), BagSize(ps), FALSE)
      ELSE IF BagSize(pw) >= min_sample_count
      THEN Aggregate(median(pw), BagSize(pw), TRUE)
      ELSE Aggregate(None, BagSize(pw), TRUE)

\* ------------------------------------------------- the adjustment factors
\* The nine dimensions of config/adjustments.yml, each a list of rules.
EmptyRules ==
  [walk_minutes |-> << >>, floor |-> << >>, direction |-> << >>,
   area |-> << >>, total_units |-> << >>, total_floors |-> << >>,
   pet_allowed |-> << >>, good_view |-> << >>, good_sunlight |-> << >>]

\* Built-in rules used when there is no file.
LoadBuiltinRules(file) ==
  IF ~file.exists
  THEN [EmptyRules EXCEPT
          !.walk_minutes = <<[min |-> 0, max |-> 99, factor |-> FactorUnit - 1]>>]
  ELSE file.rules

\* calc_deal_score.load_adjustments: the rules of the file, the empty rule
\* lists when there is no file; adjustments.get(key, []) reads a key
load_adjustments(file) ==
  IF ~file.exists THEN EmptyRules ELSE file.rules

Neutral == FactorUnit

\* The lookup returning the last matching rule's factor.
RangeFactorLast(value, rules, unit) ==
  IF value = None THEN Neutral
  ELSE LET hit == {n \in DOMAIN rules :
                     rules[n].min * unit <= value /\ value <= rules[n].max * unit}
       IN  IF hit = {} THEN Neutral
           ELSE rules[CHOOSE n \in hit : \A m \in hit : n >= m].factor

\* for entry in rules: if entry["min"] <= value <= entry["max"]: return factor
\* unit is the number of model units in one unit of min and max
RangeFactor(value, rules, unit) ==
  IF value = None THEN Neutral
  ELSE LET hit == {n \in DOMAIN rules :
                     rules[n].min * unit <= value /\ value <= rules[n].max * unit}
       IN  IF hit = {} THEN Neutral
           ELSE rules[CHOOSE n \in hit : \A m \in hit : n <= m].factor

\* for entry in rules: if entry["value"] == value: return factor
ValueFactor(value, none, rules) ==
  IF value = none THEN Neutral
  ELSE LET hit == {n \in DOMAIN rules : rules[n].value = value}
       IN  IF hit = {} THEN Neutral
           ELSE rules[CHOOSE n \in hit : \A m \in hit : n <= m].factor

get_walk_factor(minutes, adj) == RangeFactor(minutes, adj.walk_minutes, 1)
get_floor_factor(floor, adj) == RangeFactor(floor, adj.floor, 1)
get_direction_factor(direction, adj) == ValueFactor(direction, NoneStr, adj.direction)
get_area_factor(area, adj) == RangeFactor(area, adj.area, AreaUnit)
get_total_units_factor(total_units, adj) == RangeFactor(total_units, adj.total_units, 1)
get_total_floors_factor(total_floors, adj) == RangeFactor(total_floors, adj.total_floors, 1)
get_boolean_factor(value, key, adj) == ValueFactor(value, None, adj[key])

RECURSIVE TimesFactors(_, _, _)
\* num/den times the factors of fs, as a fraction <<num, den>> kept reduced
\* by FactorUnit
TimesFactors(num, den, fs) ==
  IF fs = << >> THEN <<num, den>>
  ELSE LET n2 == num * Head(fs)
       IN  IF n2 % FactorUnit = 0
           THEN TimesFactors(n2 \div FactorUnit, den, Tail(fs))
           ELSE TimesFactors(n2, den * FactorUnit, Tail(fs))

\* The product rounded to the nearest integer.
AdjustedPriceRounded(market_price, fs) ==
  LET q == TimesFactors(market_price, 1, fs)
  IN  (2 * q[1] + q[2]) \div (2 * q[2])

\* int(market_price * walk_factor * ... * sunlight_factor)
AdjustedPrice(market_price, fs) ==
  LET q == TimesFactors(market_price, 1, fs)
  IN  IntTrunc(q[1], q[2])

\* ------------------------------------------------------------- the score
\* The score with the sign reversed.
ScoreReversed(asking_price, adjusted_market_price) ==
  IF adjusted_market_price <= 0 THEN <<0, 1>>
  ELSE <<(asking_price - adjusted_market_price) * 100, adjusted_market_price>>

\* The score guarded against a zero denominator only.
ScoreZeroGuard(asking_price, adjusted_market_price) ==
  IF adjusted_market_price = 0 THEN <<0, 1>>
  ELSE IF adjusted_market_price < 0
  THEN <<(asking_price - adjusted_market_price) * 100, -adjusted_market_price>>
  ELSE <<(adjusted_market_price - asking_price) * 100, adjusted_market_price>>

\* calc_deal_score.calc_deal_score: the score in percent as a fraction
\* <<numerator, denominator>>, denominator > 0
calc_deal_score(asking_price, adjusted_market_price) ==
  IF adjusted_market_price <= 0 THEN <<0, 1>>
  ELSE <<(adjusted_market_price - asking_price) * 100, adjusted_market_price>>

\* round(num / den, 2) in hundredths, den > 0: to the nearest hundredth, a
\* tie to the even one
Round2(num, den) ==
  LET n == num * 100
      q == IF n >= 0 THEN n \div den ELSE -(((-n) + den - 1) \div den)
      r == n - q * den
  IN  IF 2 * r < den THEN q
      ELSE IF 2 * r > den THEN q + 1
      ELSE IF q % 2 = 0 THEN q ELSE q + 1

\* ------------------------------------------------------ the listings table
RawFields ==
  {"ward_name", "station_name", "asking_price", "area", "building_year",
   "minutes_to_station", "floor", "direction", "total_units", "total_floors",
   "pet_allowed", "good_view", "good_sunlight"}

FactorFields ==
  {"walk_factor", "floor_factor", "direction_factor", "area_factor",
   "total_units_factor", "total_floors_factor", "pet_factor", "view_factor",
   "sunlight_factor"}

DerivedFields ==
  {"market_price", "adjusted_market_price", "fallback_level", "deal_score"}
    \cup FactorFields

\* The derived columns of a row no scoring run has written: NULL
NoDerived == [f \in DerivedFields |-> None]

\* UPDATE ... SET fields of set: the row with those columns replaced
SetColumns(row, set) ==
  [f \in DOMAIN row |-> IF f \in DOMAIN set THEN set[f] ELSE row[f]]

\* The rows with a score not yet set.
SelectUnscored(table) ==
  LET ids == [n \in 1..Cardinality(DOMAIN table) |-> n]
      sel == SelectSeq(ids, LAMBDA n : table[n].status = "active"
                                       /\ table[n].deal_score = None)
  IN  [n \in DOMAIN sel |->
         [f \in RawFields \cup {"id"} |->
            IF f = "id" THEN sel[n] ELSE table[sel[n]][f]]]

\* The SELECT without its WHERE clause: the rows of every status.
SelectEveryStatus(table) ==
  [n \in 1..Cardinality(DOMAIN table) |->
     [f \in RawFields \cup {"id"} |-> IF f = "id" THEN n ELSE table[n][f]]]

\* SELECT id, ward_name, ... FROM listings WHERE status = 'active'
\* (calc_deal_score.py 188-195): the rows in id order
SelectActive(table) ==
  LET ids == [n \in 1..Cardinality(DOMAIN table) |-> n]
      sel == SelectSeq(ids, LAMBDA n : table[n].status = "active")
  IN  [n \in DOMAIN sel |->
         [f \in RawFields \cup {"id"} |->
            IF f = "id" THEN sel[n] ELSE table[sel[n]][f]]]

\* The two columns of the first schema only.
DerivedLegacy(row, adj, r) ==
  LET score == calc_deal_score(row.asking_price, r.price)
  IN  [market_price |-> r.price, deal_score |-> Round2(score[1], score[2])]

\* The SET clause with the score taken from the raw market price.
DerivedRawScore(row, adj, r) ==
  LET walk == get_walk_factor(row.minutes_to_station, adj)
      floor == get_floor_factor(row.floor, adj)
      direction == get_direction_factor(row.direction, adj)
      area == get_area_factor(row.area, adj)
      units == get_total_units_factor(row.total_units, adj)
      floors == get_total_floors_factor(row.total_floors, adj)
      pet == get_boolean_factor(row.pet_allowed, "pet_allowed", adj)
      view == get_boolean_factor(row.good_view, "good_view", adj)
      sunlight == get_boolean_factor(row.good_sunlight, "good_sunlight", adj)
      adjusted == AdjustedPrice(r.price, <<walk, floor, direction, area,
                                          units, floors, pet, view, sunlight>>)
      score == calc_deal_score(row.asking_price, r.price)
  IN  [market_price |-> r.price,
       adjusted_market_price |-> adjusted,
       walk_factor |-> walk,
       floor_factor |-> floor,
       direction_factor |-> direction,
       area_factor |-> area,
       total_units_factor |-> units,
       total_floors_factor |-> floors,
       pet_factor |-> pet,
       view_factor |-> view,
       sunlight_factor |-> sunlight,
       fallback_level |-> r.tier,
       deal_score |-> Round2(score[1], score[2])]

\* The SET clause of the UPDATE (calc_deal_score.py 231-277) for a fetched
\* row and the resolver's result r: the nine factors, the adjusted price,
\* the tier and round(score, 2)
derived_fields(row, adj, r) ==
  LET walk == get_walk_factor(row.minutes_to_station, adj)
      floor == get_floor_factor(row.floor, adj)
      direction == get_direction_factor(row.direction, adj)
      area == get_area_factor(row.area, adj)
      units == get_total_units_factor(row.total_units, adj)
      floors == get_total_floors_factor(row.total_floors, adj)
      pet == get_boolean_factor(row.pet_allowed, "pet_allowed", adj)
      view == get_boolean_factor(row.good_view, "good_view", adj)
      sunlight == get_boolean_factor(row.good_sunlight, "good_sunlight", adj)
      adjusted == AdjustedPrice(r.price, <<walk, floor, direction, area,
                                          units, floors, pet, view, sunlight>>)
      score == calc_deal_score(row.asking_price, adjusted)
  IN  [market_price |-> r.price,
       adjusted_market_price |-> adjusted,
       walk_factor |-> walk,
       floor_factor |-> floor,
       direction_factor |-> direction,
       area_factor |-> area,
       total_units_factor |-> units,
       total_floors_factor |-> floors,
       pet_factor |-> pet,
       view_factor |-> view,
       sunlight_factor |-> sunlight,
       fallback_level |-> r.tier,
       deal_score |-> Round2(score[1], score[2])]

\* What the loop body does with one fetched row: skip it, or UPDATE the
\* columns of set.
Skip == [skip |-> TRUE, set |-> << >>]
Update(set) == [skip |-> FALSE, set |-> set]

\* The loop body writing a zero score where it has no estimate.
ScoreRowZero(row, adj, txs, year) ==
  LET r == calc_market_price_with_fallback(txs, year, row.ward_name,
             row.station_name, row.building_year, row.area)
  IN  IF ~TruthyNum(row.asking_price) \/ ~TruthyNum(row.area)
           \/ ~TruthyNum(row.building_year) \/ ~TruthyNum(r.price) \/ r.tier = 5
      THEN Update([deal_score |-> 0])
      ELSE Update(derived_fields(row, adj, r))

\* The loop body of update_listing_scores (calc_deal_score.py 201-229) for
\* one row: txs is the transactions table the resolver's own connection
\* reads, year the current year.
score_row(row, adj, txs, year) ==
  IF ~TruthyNum(row.asking_price) \/ ~TruthyNum(row.area)
       \/ ~TruthyNum(row.building_year)
  THEN Skip
  ELSE
    LET r == calc_market_price_with_fallback(txs, year, row.ward_name,
               row.station_name, row.building_year, row.area)
    IN  IF ~TruthyNum(r.price) \/ r.tier = 5 THEN Skip
        ELSE Update(derived_fields(row, adj, r))

\* conn.commit(): the pending UPDATEs reach the table
Commit(table, writes) ==
  [id \in DOMAIN table |->
     IF id \in DOMAIN writes THEN SetColumns(table[id], writes[id])
     ELSE table[id]]

\* ------------------------------------------------------------ the state
VARIABLES
  transactions,      \* table transactions, committed: a bag of rows
  current_year,      \* what datetime.now().year returns
  adjustments_file,  \* config/adjustments.yml: whether it exists, its rules
  listings,          \* table listings, committed: id -> row
  pc,                \* update_listing_scores: "idle" or "loop"
  adjustments,       \* update_listing_scores: the rules it loaded
  rows,              \* update_listing_scores: the rows its SELECT fetched
  i,                 \* update_listing_scores: index in rows of the next row
  updated,           \* update_listing_scores: counters
  skipped,
  errors,
  pending,           \* UPDATEs of its connection not yet committed: id -> fields
  returned,          \* what the last call of update_listing_scores returned
  stable_runs,       \* runs completed since an input last changed (history)
  call,              \* last direct call of the resolver: its arguments
  result,            \* and what it returned
  writer,            \* the connection holding SQLite's write lock, or "none"
  start_transactions,\* table transactions as it was when the run began (history)
  spc,               \* save_listings: "idle" or "loop"
  sbatch,            \* save_listings: the scraped listings not yet saved
  swrites,           \* its INSERTs and UPDATEs not yet committed: id -> fields
  price_history,     \* table price_history, committed: a sequence of rows
  shistory           \* save_listings: its price_history INSERTs not yet committed

resolverVars == <<call, result>>
storeVars == <<transactions, current_year, adjustments_file, listings>>
runVars == <<pc, adjustments, rows, i, updated, skipped, errors, pending,
             returned, stable_runs>>
scrapeVars == <<spc, sbatch, swrites, price_history, shistory>>
concVars == <<writer, start_transactions, spc, sbatch, swrites, price_history,
              shistory>>
vars == <<transactions, current_year, adjustments_file, listings, pc,
          adjustments, rows, i, updated, skipped, errors, pending, returned,
          stable_runs, call, result, writer, start_transactions, spc, sbatch,
          swrites, price_history, shistory>>

\* No write lock held, no run begun, save_listings not running.
ConcIdle ==
  /\ writer = "none"
  /\ start_transactions = EmptyTable
  /\ spc = "idle"
  /\ sbatch = << >>
  /\ swrites = << >>
  /\ price_history = << >>
  /\ shistory = << >>

\* ------------------------------------------------------------ the inputs
\* Records of the transaction API (fetch_reinfolib.py), already parsed.
Api(ward, price, area, year) ==
  [Municipality |-> ward, TradePrice |-> price, Area |-> area,
   BuildingYear |-> year]

ApiRecords ==
  { Api("X", 22500, 45 * AreaUnit, 2020),   \* 500 per m2
    Api("X", 24000, 60 * AreaUnit, 2020),   \* 400 per m2
    Api("X", 22500, None, 2020) }           \* no area: no unit price

\* The row save_transactions inserts for one API record
\* (fetch_reinfolib.py 117-141): no station, unit_price = int(price / area)
TxOfApi(t) ==
  LET area == IF TruthyNum(t.Area) THEN t.Area ELSE None
      unit_price == IF area # None
                    THEN IntTrunc(t.TradePrice * AreaUnit, area) ELSE None
  IN  Tx(t.Municipality, NoneStr, t.BuildingYear, area, unit_price)

\* The listings the importers insert: the raw columns.
Listing(station, asking, area, year, minutes, floor, direction, units, floors, pet) ==
  [ward_name |-> "X", station_name |-> station, asking_price |-> asking,
   area |-> area, building_year |-> year, minutes_to_station |-> minutes,
   floor |-> floor, direction |-> direction, total_units |-> units,
   total_floors |-> floors, pet_allowed |-> pet, good_view |-> None,
   good_sunlight |-> None]

ListingInputs ==
  { Listing("Y", 24774, 45 * AreaUnit + 1, 2016, 5, 3, "S", 50, 10, 1),
    Listing(NoneStr, 22749, 45 * AreaUnit + 1, 2016, None, None, NoneStr, None, None, None),
    Listing("Y", 25000, 45 * AreaUnit + 1, None, 5, 3, "S", 50, 10, 1),
    Listing("Y", None, 45 * AreaUnit + 1, 2016, 5, 3, "S", 50, 10, 1),
    Listing("Y", 25000, None, 2016, 5, 3, "S", 50, 10, 1) }

\* The contents config/adjustments.yml may have.
Rule(lo, hi, factor) == [min |-> lo, max |-> hi, factor |-> factor]
Val(v, factor) == [value |-> v, factor |-> factor]

SomeRules ==
  [EmptyRules EXCEPT
     !.walk_minutes = <<Rule(1, 5, FactorUnit + 1), Rule(3, 10, FactorUnit - 1)>>,
     !.direction = <<Val("S", FactorUnit + 1)>>,
     !.pet_allowed = <<Val(1, FactorUnit - 1)>>]

AdjustmentFiles ==
  { [exists |-> FALSE, rules |-> EmptyRules],
    [exists |-> TRUE, rules |-> SomeRules] }

\* The transaction tables the resolver is called on: up to MaxGroups groups
\* of equal rows.
RowKinds ==
  { Tx("X", "Y", 2020, 45 * AreaUnit, 400),
    Tx("X", "Y", 2020, 45 * AreaUnit, 501),
    Tx("X", "Y", 2020, 60 * AreaUnit, 300),
    Tx("X", NoneStr, 2020, 45 * AreaUnit, 600),
    Tx("X", NoneStr, 2020, 60 * AreaUnit, 700),
    Tx("Z", "Y", 2020, 45 * AreaUnit, 900),
    Tx("X", "Y", 2010, 45 * AreaUnit, 800),
    Tx("X", "Y", 2020, None, None) }

RECURSIVE TablesOf(_)
TablesOf(g) ==
  IF g = 0 THEN {EmptyTable}
  ELSE LET prev == TablesOf(g - 1)
       IN  prev \cup {BagAdd(b, k, n) : b \in prev, k \in RowKinds,
                                         n \in {4, 5, 10, 15}}

\* The arguments the resolver is called with.
CallStations == {"Y", NoneStr}
CallYears == {None, 2016, 2006}
CallAreas == {None, 39 * AreaUnit, 45 * AreaUnit + 1}

NoCall ==
  [fn |-> "none", ward_name |-> NoneStr, station_name |-> NoneStr,
   building_year |-> None, area |-> None]

\* update_listing_scores ended in an exception: nothing returned
Raised == <<None, None, None>>
\* update_listing_scores interrupted from outside: nothing returned
Interrupted == <<None, None, None, None>>
NotCalled == << >>

\* ------------------------------------------------------------ the actions
Init ==
  /\ transactions = EmptyTable
  /\ current_year = StartYear
  /\ adjustments_file \in AdjustmentFiles
  /\ listings = << >>
  /\ pc = "idle"
  /\ adjustments = EmptyRules
  /\ rows = << >>
  /\ i = 0
  /\ updated = 0
  /\ skipped = 0
  /\ errors = 0
  /\ pending = << >>
  /\ returned = NotCalled
  /\ stable_runs = 0
  /\ call = NoCall
  /\ result = Returns(None, None, None)
  /\ ConcIdle

\* An input of the scoring run changes.
Touch == stable_runs' = 0

\* The scripts are run one after another (single-threaded, batch): no other
\* script runs between the first and the last line of update_listing_scores.
Busy == pc # "idle"

\* fetch_reinfolib.save_transactions on a batch of n records like t
save_transactions(t, n) ==
  /\ ~Busy
  /\ BagSize(transactions) + n <= MaxTransactions
  /\ transactions' = BagAdd(transactions, TxOfApi(t), n)
  /\ Touch
  /\ UNCHANGED <<concVars, current_year, adjustments_file, listings, pc, adjustments,
                 rows, i, updated, skipped, errors, pending, returned,
                 resolverVars>>

\* import_manual_listings.insert_listing: a new active row, its derived
\* columns NULL
insert_listing(data) ==
  /\ ~Busy
  /\ Cardinality(DOMAIN listings) < MaxListings
  /\ LET id == Cardinality(DOMAIN listings) + 1
     IN  listings' = listings @@
           (id :> (data @@ [status |-> "active"] @@ NoDerived))
  /\ Touch
  /\ UNCHANGED <<concVars, transactions, current_year, adjustments_file, pc,
                 adjustments, rows, i, updated, skipped, errors, pending,
                 returned, resolverVars>>

\* The calendar year ends: datetime.now().year grows by one.
NewYear ==
  /\ ~Busy
  /\ current_year + 1 \in Years
  /\ current_year' = current_year + 1
  /\ Touch
  /\ UNCHANGED <<concVars, transactions, adjustments_file, listings, pc, adjustments,
                 rows, i, updated, skipped, errors, pending, returned,
                 resolverVars>>

\* update_listing_scores, lines 181-199: load the rules, fetch the active rows
ScoreBegin ==
  /\ pc = "idle"
  /\ adjustments' = load_adjustments(adjustments_file)
  /\ rows' = SelectActive(listings)
  /\ i' = 1
  /\ updated' = 0
  /\ skipped' = 0
  /\ errors' = 0
  /\ pending' = << >>
  /\ pc' = "loop"
  /\ start_transactions' = transactions
  /\ UNCHANGED <<writer, scrapeVars>>
  /\ UNCHANGED <<storeVars, returned, stable_runs, resolverVars>>

\* A skipping pass that counts nothing.
ScoreSkipUncounted ==
  /\ pc = "loop"
  /\ i <= Len(rows)
  /\ score_row(rows[i], adjustments, transactions, current_year).skip
  /\ i' = i + 1
  /\ UNCHANGED <<concVars, storeVars, pc, adjustments, rows, updated, skipped, errors,
                 pending, returned, stable_runs, resolverVars>>

\* one pass of the loop that ends in continue (lines 218-229)
ScoreSkip ==
  /\ pc = "loop"
  /\ i <= Len(rows)
  /\ score_row(rows[i], adjustments, transactions, current_year).skip
  /\ skipped' = skipped + 1
  /\ i' = i + 1
  /\ UNCHANGED <<concVars, storeVars, pc, adjustments, rows, updated, errors, pending,
                 returned, stable_runs, resolverVars>>

\* one pass of the loop that ends in the UPDATE (lines 231-278)
ScoreUpdate ==
  /\ pc = "loop"
  /\ i <= Len(rows)
  /\ LET r == score_row(rows[i], adjustments, transactions, current_year)
     IN  /\ ~r.skip
         /\ pending' = [id \in DOMAIN pending \cup {rows[i].id} |->
                          IF id = rows[i].id THEN r.set ELSE pending[id]]
  /\ updated' = updated + 1
  /\ i' = i + 1
  /\ writer \in {"none", "score"}
  /\ writer' = "score"
  /\ UNCHANGED <<start_transactions, scrapeVars>>
  /\ UNCHANGED <<storeVars, pc, adjustments, rows, skipped, errors, returned,
                 stable_runs, resolverVars>>

\* The UPDATE raises (sqlite3.OperationalError: the database is locked past
\* DB_TIMEOUT, or cannot be written).  Nothing catches it: get_connection
\* closes the connection, which drops its uncommitted UPDATEs, and the
\* exception leaves update_listing_scores.
ScoreWriteFails ==
  /\ pc = "loop"
  /\ i <= Len(rows)
  /\ ~score_row(rows[i], adjustments, transactions, current_year).skip
  /\ pending' = << >>
  /\ pc' = "idle"
  /\ returned' = Raised
  /\ rows' = << >>
  /\ i' = 0
  /\ updated' = 0
  /\ skipped' = 0
  /\ errors' = 0
  /\ adjustments' = EmptyRules
  /\ stable_runs' = 0
  /\ writer' = (IF writer = "score" THEN "none" ELSE writer)
  /\ start_transactions' = EmptyTable
  /\ UNCHANGED scrapeVars
  /\ UNCHANGED <<storeVars, resolverVars>>

\* An interruption that leaves the first column of each pending UPDATE in
\* the table.
ScoreInterruptedTorn ==
  /\ pc = "loop"
  /\ listings' = Commit(listings,
                        [id \in DOMAIN pending |->
                           [market_price |-> pending[id].market_price]])
  /\ pending' = << >>
  /\ pc' = "idle"
  /\ returned' = Interrupted
  /\ rows' = << >>
  /\ i' = 0
  /\ updated' = 0
  /\ skipped' = 0
  /\ errors' = 0
  /\ adjustments' = EmptyRules
  /\ stable_runs' = 0
  /\ writer' = (IF writer = "score" THEN "none" ELSE writer)
  /\ start_transactions' = EmptyTable
  /\ UNCHANGED <<transactions, current_year, adjustments_file, resolverVars,
                 scrapeVars>>

\* The run is interrupted anywhere in its loop (KeyboardInterrupt, the
\* process killed, any exception): nothing is committed, and closing the
\* connection (db.py 22-25), or SQLite's recovery, drops the UPDATEs made.
ScoreInterrupted ==
  /\ pc = "loop"
  /\ pending' = << >>
  /\ pc' = "idle"
  /\ returned' = Interrupted
  /\ rows' = << >>
  /\ i' = 0
  /\ updated' = 0
  /\ skipped' = 0
  /\ errors' = 0
  /\ adjustments' = EmptyRules
  /\ stable_runs' = 0
  /\ writer' = (IF writer = "score" THEN "none" ELSE writer)
  /\ start_transactions' = EmptyTable
  /\ UNCHANGED <<storeVars, resolverVars, scrapeVars>>

\* conn.commit() and return updated, skipped, errors (lines 280-281)
ScoreCommit ==
  /\ pc = "loop"
  /\ i > Len(rows)
  /\ listings' = Commit(listings, pending)
  /\ returned' = <<updated, skipped, errors>>
  /\ pending' = << >>
  /\ pc' = "idle"
  /\ rows' = << >>
  /\ i' = 0
  /\ updated' = 0
  /\ skipped' = 0
  /\ errors' = 0
  /\ adjustments' = EmptyRules
  /\ stable_runs' = IF stable_runs < 2 THEN stable_runs + 1 ELSE 2
  /\ writer' = (IF writer = "score" THEN "none" ELSE writer)
  /\ start_transactions' = EmptyTable
  /\ UNCHANGED scrapeVars
  /\ UNCHANGED <<transactions, current_year, adjustments_file, resolverVars>>

Next ==
  \/ \E t \in ApiRecords, n \in {5, 10} : save_transactions(t, n)
  \/ \E data \in ListingInputs : insert_listing(data)
  \/ NewYear
  \/ ScoreBegin
  \/ ScoreSkip
  \/ ScoreUpdate
  \/ ScoreWriteFails
  \/ ScoreInterrupted
  \/ ScoreCommit

Spec == Init /\ [][Next]_vars

\* ------------------------------------------- the resolver called directly
InitResolver ==
  /\ transactions \in TablesOf(MaxGroups)
  /\ current_year = StartYear
  /\ adjustments_file = [exists |-> FALSE, rules |-> EmptyRules]
  /\ listings = << >>
  /\ pc = "idle"
  /\ adjustments = EmptyRules
  /\ rows = << >>
  /\ i = 0
  /\ updated = 0
  /\ skipped = 0
  /\ errors = 0
  /\ pending = << >>
  /\ returned = NotCalled
  /\ stable_runs = 0
  /\ call = NoCall
  /\ result = Returns(None, None, None)
  /\ ConcIdle

\* a call of calc_market_price_with_fallback
CallResolver(station, year, area) ==
  /\ call = NoCall
  /\ call' = [fn |-> "calc_market_price_with_fallback", ward_name |-> "X",
              station_name |-> station, building_year |-> year, area |-> area]
  /\ result' = calc_market_price_with_fallback(transactions, current_year,
                                               "X", station, year, area)
  /\ UNCHANGED <<concVars, storeVars, runVars>>

\* a call of get_market_price
CallGetMarketPrice(station, year, area) ==
  /\ call = NoCall
  /\ call' = [fn |-> "get_market_price", ward_name |-> "X",
              station_name |-> station, building_year |-> year, area |-> area]
  /\ result' = get_market_price(transactions, current_year, "X", station,
                                year, area)
  /\ UNCHANGED <<concVars, storeVars, runVars>>

\* a call of calc_median_unit_price
CallMedianUnitPrice(station, age_bracket, area_bracket, min_sample_count) ==
  /\ call = NoCall
  /\ call' = [fn |-> "calc_median_unit_price", ward_name |-> "X",
              station_name |-> station, age_bracket |-> age_bracket,
              area_bracket |-> area_bracket,
              min_sample_count |-> min_sample_count]
  /\ result' = calc_median_unit_price(transactions, current_year, "X", station,
                                      age_bracket, area_bracket,
                                      min_sample_count)
  /\ UNCHANGED <<concVars, storeVars, runVars>>

NextResolver ==
  \/ \E s \in CallStations, y \in CallYears, a \in CallAreas :
        CallResolver(s, y, a)
  \/ \E s \in CallStations, y \in CallYears, a \in CallAreas :
        CallGetMarketPrice(s, y, a)
  \* the aggregator, with the default minimum sample count (20) and the one
  \* of calc_market_price.main (10)
  \/ \E s \in CallStations, g \in {"0-10", "11-20"}, b \in {"40-50", "51-60"},
        n \in {20, 10} :
        CallMedianUnitPrice(s, g, b, n)

SpecResolver == InitResolver /\ [][NextResolver]_vars

\* ---------------------------------------------- the tiers, as specified
\* Tier t's minimum sample count.
Threshold(t) == CASE t = 1 -> 20 [] t = 2 -> 15 [] t = 3 -> 10 [] t = 4 -> 5

\* Tier t is skipped for the listing c: a station tier without a station
\* name, an area-bracket tier with a floor area outside all brackets.
TierSkipped(t, c) ==
  \/ t \in {1, 2} /\ c.station_name = NoneStr
  \/ t \in {1, 3} /\ get_area_bracket(c.area) = NoneStr

\* The row k of the transactions table satisfies all filters of tier t for
\* the listing c (whose building year is present).
Comparable(k, t, c) ==
  LET yr == get_age_range(get_age_bracket(c.building_year, current_year),
                          current_year)
      ar == get_area_range(get_area_bracket(c.area))
  IN  /\ k.ward_name = c.ward_name
      /\ t \in {1, 2} => k.station_name = c.station_name
      /\ k.building_year # None
      /\ yr[1] <= k.building_year /\ k.building_year <= yr[2]
      /\ t \in {1, 3} => (k.area # None /\ ar[1] <= k.area /\ k.area <= ar[2])
      /\ k.unit_price # None

SampleSet(t, c) == {k \in DOMAIN transactions : Comparable(k, t, c)}
SampleCount(t, c) == SumOver(SampleSet(t, c), transactions)

Qualifies(t, c) == ~TierSkipped(t, c) /\ SampleCount(t, c) >= Threshold(t)

\* The k-th smallest unit price of tier t's sample set.
SampleAt(t, c, k) ==
  CHOOSE v \in {r.unit_price : r \in SampleSet(t, c)} :
    /\ SumOver({r \in SampleSet(t, c) : r.unit_price < v}, transactions) < k
    /\ SumOver({r \in SampleSet(t, c) : r.unit_price <= v}, transactions) >= k

\* Twice the median unit price of tier t's sample set.
TwiceMedian(t, c) ==
  LET n == SampleCount(t, c)
  IN  IF n % 2 = 1 THEN 2 * SampleAt(t, c, (n + 1) \div 2)
      ELSE SampleAt(t, c, n \div 2) + SampleAt(t, c, n \div 2 + 1)

ResolverCalled == call.fn = "calc_market_price_with_fallback"
AnyCalled ==
  call.fn \in {"calc_market_price_with_fallback", "get_market_price"}

\* C1: for a listing with a building year and a floor area the resolver
\* returns the lowest-numbered tier, among those not skipped, whose sample
\* count meets its threshold, and tier 5 only when there is none.
C1_EarliestQualifyingTier ==
  (ResolverCalled /\ call.building_year # None /\ call.area # None) =>
    /\ ~result.raised
    /\ \A t \in 1..4 :
         result.tier = t <=>
           (Qualifies(t, call) /\ \A u \in 1..(t - 1) : ~Qualifies(u, call))
    /\ result.tier = 5 <=> \A t \in 1..4 : ~Qualifies(t, call)

\* C1 witness: tier 2 is returned although tier 3 qualifies too and tier 4
\* has more samples and another median.
C1_Witness ==
  /\ ResolverCalled
  /\ result.tier = 2
  /\ Qualifies(3, call)
  /\ SampleCount(4, call) > SampleCount(2, call)
  /\ TwiceMedian(4, call) # TwiceMedian(2, call)

\* C2: a call with an absent building year or an absent floor area returns
\* an absent price, with tier 5, and does not raise.
C2_AbsentInputIsTier5 ==
  (AnyCalled /\ (call.building_year = None \/ call.area = None)) =>
    /\ ~result.raised
    /\ result.price = None
    /\ ResolverCalled => result.tier = 5

\* C9: no station tier for a listing without a station name, no area-bracket
\* tier for a floor area below 40; such a listing is resolved at a remaining
\* tier whose threshold is met.
C9_SkippedTiers ==
  (ResolverCalled /\ call.building_year # None /\ call.area # None) =>
    /\ call.station_name = NoneStr => result.tier \notin {1, 2}
    /\ call.area < 40 * AreaUnit => result.tier \notin {1, 3}
    /\ (call.station_name = NoneStr /\ (Qualifies(3, call) \/ Qualifies(4, call)))
         => result.tier \in {3, 4}
    /\ (call.area < 40 * AreaUnit /\ (Qualifies(2, call) \/ Qualifies(4, call)))
         => result.tier \in {2, 4}

\* C9 witness: a listing without a station name resolved at tier 3 on a table
\* holding at least 20 rows of its ward, age bracket and area bracket.
C9_Witness ==
  /\ ResolverCalled
  /\ call.station_name = NoneStr
  /\ result.tier = 3
  /\ SampleCount(3, call) >= 20

\* C10 as claimed: at tier t in 1..4 the price is the median unit price of
\* tier t's sample set times the floor area, rounded to an integer (whichever
\* way: it is within one of the exact product).
C10_PriceIsMedianTimesArea ==
  (ResolverCalled /\ ~result.raised /\ result.tier \in 1..4) =>
    Abs(result.price * 2 * AreaUnit - TwiceMedian(result.tier, call) * call.area)
      < 2 * AreaUnit

\* C10 amended: at tier t in 1..4 the price is the median unit price of tier
\* t's sample set cut to an integer, times the floor area, cut to an integer.
C10_PriceIsTruncatedMedianTimesArea ==
  (ResolverCalled /\ ~result.raised /\ result.tier \in 1..4) =>
    result.price =
      IntTrunc(IntTrunc(TwiceMedian(result.tier, call), 2) * call.area, AreaUnit)

\* C10 witness: a price from an even number of samples whose two middle
\* prices differ, among rows of another ward, station, age and area bracket.
C10_Witness ==
  /\ ResolverCalled
  /\ result.tier = 1
  /\ TwiceMedian(1, call) % 2 = 1
  /\ result.price = IntTrunc(450 * call.area, AreaUnit)

\* ------------------------------------------------------------ the aggregator
\* C22: calc_median_unit_price returns a median whenever its sample count is
\* at least one, and an absent median only with a sample count of zero: it
\* enforces no minimum sample size.
C22_MedianWheneverSampled ==
  call.fn = "calc_median_unit_price" =>
    /\ result.sample_count >= 1 => result.median # None
    /\ result.median = None => result.sample_count = 0

\* -------------------------------------------------- the resolver's result
\* C23: a result of the resolver has a tier in 1..5, an absent price exactly
\* at tier 5, and at tier t in 1..4 the size of tier t's sample set as its
\* sample count, which is at least tier t's threshold.
C23_ResultShape ==
  (ResolverCalled /\ ~result.raised) =>
    /\ result.tier \in 1..5
    /\ result.price = None <=> result.tier = 5
    /\ result.tier \in 1..4 =>
         /\ result.sample_count = SampleCount(result.tier, call)
         /\ result.sample_count >= Threshold(result.tier)

\* C23 witness: a result of tier 3 with exactly its threshold of 10 samples,
\* on a table whose tier-4 sample set is larger.
C23_Witness ==
  /\ ResolverCalled
  /\ result.tier = 3
  /\ result.price # None
  /\ result.sample_count = 10
  /\ SampleCount(4, call) > 10

\* The unit prices the query of tier t returns for the listing c, issued as
\* the resolver issues it (calc_market_price.py 173-196).
TierPrices(t, c) ==
  LET yr == get_age_range(get_age_bracket(c.building_year, current_year),
                          current_year)
      ar == IF get_area_bracket(c.area) # NoneStr
            THEN get_area_range(get_area_bracket(c.area))
            ELSE <<None, None>>
  IN  query_unit_prices(transactions, c.ward_name,
                        IF t \in {1, 2} THEN c.station_name ELSE NoneStr,
                        yr[1], yr[2],
                        IF t \in {1, 3} THEN ar[1] ELSE None,
                        IF t \in {1, 3} THEN ar[2] ELSE None)

\* every price of the bag a is in the bag b at least as often
BagLeq(a, b) == \A p \in DOMAIN a : p \in DOMAIN b /\ a[p] <= b[p]

\* C30: the tiers' samples are nested, tier 1 within tier 2 and tier 3, both
\* within tier 4, so n1 <= n2 <= n4 and n1 <= n3 <= n4; and the resolver
\* returns tier 5 for a listing with a building year only when fewer than 5
\* transactions match its ward and age bracket.
C30_TiersNested ==
  (ResolverCalled /\ call.building_year # None) =>
    /\ BagLeq(TierPrices(1, call), TierPrices(2, call))
    /\ BagLeq(TierPrices(1, call), TierPrices(3, call))
    /\ BagLeq(TierPrices(2, call), TierPrices(4, call))
    /\ BagLeq(TierPrices(3, call), TierPrices(4, call))
    /\ BagSize(TierPrices(1, call)) <= BagSize(TierPrices(2, call))
    /\ BagSize(TierPrices(2, call)) <= BagSize(TierPrices(4, call))
    /\ BagSize(TierPrices(1, call)) <= BagSize(TierPrices(3, call))
    /\ BagSize(TierPrices(3, call)) <= BagSize(TierPrices(4, call))
    /\ (~result.raised /\ result.tier = 5) => SampleCount(4, call) < 5

\* C30 witness: a listing with a station and a floor area whose tier-1
\* sample is non-empty and smaller than its tier-2 sample, its tier-3 sample
\* smaller than its tier-4 sample, resolved at tier 4.
C30_Witness ==
  /\ ResolverCalled
  /\ call.building_year # None
  /\ call.station_name # NoneStr
  /\ BagSize(TierPrices(1, call)) >= 1
  /\ BagSize(TierPrices(1, call)) < BagSize(TierPrices(2, call))
  /\ BagSize(TierPrices(3, call)) < BagSize(TierPrices(4, call))
  /\ result.tier = 4

\* --------------------------------------------------- the batch, as specified
\* The run has no comparable-sales estimate for the listing c: a required
\* input is missing, or no tier qualifies (the resolver's tier 5).
NoEstimate(c) ==
  \/ c.asking_price = None
  \/ c.area = None
  \/ c.building_year = None
  \/ \A t \in 1..4 : ~Qualifies(t, c)

InLoop == pc = "loop" /\ i <= Len(rows)
Completes ==
  pc = "loop" /\ pc' = "idle" /\ returned' \notin {Raised, Interrupted}

\* The fetched row of the listing id.
RowOf(id) == rows[CHOOSE n \in DOMAIN rows : rows[n].id = id]

\* C3: the pass of the loop over a listing without an estimate, when the run
\* is not interrupted from outside during it, counts it as
\* skipped and writes nothing: no UPDATE is issued, the table is unchanged.
C3_NoEstimateIsSkipped ==
  [][(InLoop /\ NoEstimate(rows[i]) /\ returned' # Interrupted) =>
       /\ skipped' = skipped + 1
       /\ updated' = updated
       /\ errors' = errors
       /\ i' = i + 1
       /\ pending' = pending
       /\ listings' = listings]_vars

\* C3 witness: a listing without a building year was skipped, in a ward
\* with at least 10 transactions that scored another listing.
C3_Witness ==
  /\ pc = "loop"
  /\ skipped >= 1
  /\ updated >= 1
  /\ \E n \in 1..(i - 1) : rows[n].building_year = None
  /\ BagSize(transactions) >= 10

\* C4: after a completed run every active listing without an estimate has
\* deal score and adjusted market price unset.  The loop skips such a listing
\* without writing, so the values an earlier run wrote stay.
C4_NoEstimateIsUnset ==
  (pc = "idle" /\ stable_runs >= 1) =>
    \A id \in DOMAIN listings :
      (listings[id].status = "active" /\ NoEstimate(listings[id])) =>
        /\ listings[id].deal_score = None
        /\ listings[id].adjusted_market_price = None

\* C5: a pass of the loop that is not interrupted from outside never ends
\* the run: the listing is counted (errored when its write fails), the loop
\* goes on with the next listing, and the writes already made stay to be
\* committed.
C5_FailedWriteIsCounted ==
  [][(InLoop /\ returned' # Interrupted) =>
       /\ pc' = "loop"
       /\ i' = i + 1
       /\ updated' + skipped' + errors' = updated + skipped + errors + 1
       /\ \A id \in DOMAIN pending :
            id \in DOMAIN pending' /\ pending'[id] = pending[id]]_vars

\* C6: in the committed table the derived fields of a listing are all set
\* or all unset.
C6_DerivedAllOrNone ==
  \A id \in DOMAIN listings :
    \/ \A f \in DerivedFields : listings[id][f] # None
    \/ \A f \in DerivedFields : listings[id][f] = None

\* C6 witness: a committed table with a scored and an unscored listing.
C6_Witness ==
  /\ pc = "idle"
  /\ \E id \in DOMAIN listings : \A f \in DerivedFields : listings[id][f] # None
  /\ \E id \in DOMAIN listings : \A f \in DerivedFields : listings[id][f] = None

\* C7 as claimed: the score a run writes is > 0 when the asking price is
\* below the adjusted market price, < 0 when above, 0 when equal.
C7_ScoreSign ==
  \A id \in DOMAIN pending :
    LET ask == RowOf(id).asking_price
        adj == pending[id].adjusted_market_price
        score == pending[id].deal_score
    IN  adj > 0 =>
          /\ ask < adj => score > 0
          /\ ask > adj => score < 0
          /\ ask = adj => score = 0

\* C7 amended: the score is >= 0 when the asking price is below the adjusted
\* market price and <= 0 when above, 0 when equal, and not 0 when the two
\* differ by more than 0.005 % of the adjusted market price.
C7_ScoreSignUpToRounding ==
  \A id \in DOMAIN pending :
    LET ask == RowOf(id).asking_price
        adj == pending[id].adjusted_market_price
        score == pending[id].deal_score
    IN  adj > 0 =>
          /\ ask < adj => score >= 0
          /\ ask > adj => score <= 0
          /\ ask = adj => score = 0
          /\ (adj - ask) * 20000 > adj => score > 0
          /\ (ask - adj) * 20000 > adj => score < 0

\* C7 witness: a run writes score 0 for an asking price below the adjusted
\* market price, and a negative score for another listing.
C7_Witness ==
  /\ \E id \in DOMAIN pending :
       /\ RowOf(id).asking_price < pending[id].adjusted_market_price
       /\ pending[id].deal_score = 0
  /\ \E id \in DOMAIN pending : pending[id].deal_score < 0

PersistedFactors(row) ==
  <<row.walk_factor, row.floor_factor, row.direction_factor, row.area_factor,
    row.total_units_factor, row.total_floors_factor, row.pet_factor,
    row.view_factor, row.sunlight_factor>>

\* market_price times the nine factor columns of a row, as a fraction
PersistedProduct(row) == TimesFactors(row.market_price, 1, PersistedFactors(row))

\* a row some run has updated
Scored(row) == row.fallback_level # None

\* C11 as claimed: the adjusted market price of an updated listing is its
\* market price times the product of its nine factors, rounded to the nearest
\* integer.
C11_AdjustedIsRoundedProduct ==
  \A id \in DOMAIN listings :
    Scored(listings[id]) =>
      LET q == PersistedProduct(listings[id])
      IN  listings[id].adjusted_market_price = (2 * q[1] + q[2]) \div (2 * q[2])

\* C11 amended: the adjusted market price of an updated listing is its market
\* price times the product of its nine factors with the fraction dropped
\* (int(...)), not rounded.
C11_AdjustedIsTruncatedProduct ==
  \A id \in DOMAIN listings :
    Scored(listings[id]) =>
      LET q == PersistedProduct(listings[id])
          adj == listings[id].adjusted_market_price
      IN  /\ adj * q[2] <= q[1]
          /\ q[1] < (adj + 1) * q[2]

\* C11 witness: an updated listing with factors other than 1.0 whose product
\* has a fraction of a half or more.
C11_Witness ==
  \E id \in DOMAIN listings :
    /\ Scored(listings[id])
    /\ listings[id].walk_factor # Neutral
    /\ listings[id].pet_factor # Neutral
    /\ LET q == PersistedProduct(listings[id])
       IN  2 * (q[1] % q[2]) >= q[2] /\ q[2] > 1

\* ------------------------------------- the scoring functions called directly
\* Rule files with overlapping rules in every dimension, and with factors of
\* zero and below.
OverlapRules ==
  [walk_minutes |-> <<Rule(20, 25, FactorUnit + 1), Rule(23, 30, FactorUnit - 1)>>,
   floor |-> <<Rule(20, 25, FactorUnit + 1), Rule(23, 30, FactorUnit - 1)>>,
   direction |-> <<Val("W", FactorUnit + 1), Val("W", FactorUnit - 1)>>,
   area |-> <<Rule(60, 70, FactorUnit + 1), Rule(65, 80, FactorUnit - 1)>>,
   total_units |-> <<Rule(20, 25, FactorUnit + 1), Rule(23, 30, FactorUnit - 1)>>,
   total_floors |-> <<Rule(20, 25, FactorUnit + 1), Rule(23, 30, FactorUnit - 1)>>,
   pet_allowed |-> <<Val(1, FactorUnit + 1), Val(1, FactorUnit - 1)>>,
   good_view |-> <<Val(1, FactorUnit + 1), Val(1, FactorUnit - 1)>>,
   good_sunlight |-> <<Val(0, FactorUnit + 1), Val(0, FactorUnit - 1)>>]

LowRules ==
  [EmptyRules EXCEPT
     !.floor = <<Rule(1, 1, 0)>>,
     !.direction = <<Val("N", 0 - 5)>>]

ScoreFiles ==
  { [exists |-> FALSE, rules |-> EmptyRules],
    [exists |-> TRUE, rules |-> EmptyRules],
    [exists |-> TRUE, rules |-> SomeRules],
    [exists |-> TRUE, rules |-> OverlapRules],
    [exists |-> TRUE, rules |-> LowRules] }

\* The transaction tables the loop body is applied on.
ScoreTables ==
  { EmptyTable,
    BagAdd(EmptyTable, Tx("X", NoneStr, 2020, 45 * AreaUnit, 500), 10),
    BagAdd(EmptyTable, Tx("X", "Y", 2020, 45 * AreaUnit, 400), 20) }

\* The rows the loop body is applied on: the listings of ListingInputs, one
\* on floor 1 and one facing north.
ScoreRows ==
  ListingInputs \cup
    { Listing(NoneStr, 20000, 45 * AreaUnit + 1, 2016, 12, 1, "S", None, None, 0),
      Listing("Y", 20000, 45 * AreaUnit + 1, 2016, 4, 2, "N", 4, 4, 1) }

RangeDimensions == {"walk_minutes", "floor", "total_units", "total_floors"}
Dimensions ==
  RangeDimensions \cup {"pet_allowed", "good_view", "good_sunlight"}
    \cup {"direction", "area"}

\* The listing values a lookup is called with, per dimension.
ValuesOf(dim) ==
  IF dim \in RangeDimensions THEN {None, 0, 1, 5, 20, 23, 25, 30, 31}
  ELSE IF dim = "area"
  THEN {None, 60 * AreaUnit - 1, 60 * AreaUnit, 65 * AreaUnit,
        70 * AreaUnit, 70 * AreaUnit + 1, 80 * AreaUnit, 80 * AreaUnit + 1}
  ELSE IF dim = "direction" THEN {NoneStr, "S", "N", "W"}
  ELSE {None, 0, 1}

\* The lookup function of a dimension
Lookup(dim, value, adj) ==
  CASE dim = "walk_minutes" -> get_walk_factor(value, adj)
    [] dim = "floor" -> get_floor_factor(value, adj)
    [] dim = "direction" -> get_direction_factor(value, adj)
    [] dim = "area" -> get_area_factor(value, adj)
    [] dim = "total_units" -> get_total_units_factor(value, adj)
    [] dim = "total_floors" -> get_total_floors_factor(value, adj)
    [] OTHER -> get_boolean_factor(value, dim, adj)


InitScore ==
  /\ transactions \in ScoreTables
  /\ current_year = StartYear
  /\ adjustments_file \in ScoreFiles
  /\ listings = << >>
  /\ pc = "idle"
  /\ adjustments = EmptyRules
  /\ rows = << >>
  /\ i = 0
  /\ updated = 0
  /\ skipped = 0
  /\ errors = 0
  /\ pending = << >>
  /\ returned = NotCalled
  /\ stable_runs = 0
  /\ call = NoCall
  /\ result = Returns(None, None, None)
  /\ ConcIdle

\* a call of the lookup of one dimension on the loaded rules
CallLookup(dim, value) ==
  /\ call = NoCall
  /\ call' = [fn |-> "lookup", dim |-> dim, value |-> value]
  /\ result' = [factor |-> Lookup(dim, value, load_adjustments(adjustments_file))]
  /\ UNCHANGED <<concVars, storeVars, runVars>>

\* a call of calc_deal_score
CallCalcDealScore(asking_price, adjusted_market_price) ==
  /\ call = NoCall
  /\ call' = [fn |-> "calc_deal_score", asking_price |-> asking_price,
              adjusted_market_price |-> adjusted_market_price]
  /\ result' = [score |-> calc_deal_score(asking_price, adjusted_market_price)]
  /\ UNCHANGED <<concVars, storeVars, runVars>>

\* the loop body of update_listing_scores on one row, with the rules
\* load_adjustments returns
CallScoreRow(row) ==
  /\ call = NoCall
  /\ call' = [fn |-> "score_row", row |-> row]
  /\ result' = score_row(row, load_adjustments(adjustments_file), transactions,
                         current_year)
  /\ UNCHANGED <<concVars, storeVars, runVars>>

NextScore ==
  \/ \E dim \in Dimensions : \E value \in ValuesOf(dim) : CallLookup(dim, value)
  \/ \E a \in {0, 1, 20000, 30000}, m \in {0 - 20000, 0 - 1, 0, 1, 25000} :
        CallCalcDealScore(a, m)
  \/ \E row \in ScoreRows : CallScoreRow(row)

SpecScore == InitScore /\ [][NextScore]_vars

\* ------------------------------------------------------ the factor lookups
\* entry["min"] <= value <= entry["max"], or entry["value"] == value
RuleMatches(dim, rule, value) ==
  IF dim \in RangeDimensions THEN rule.min <= value /\ value <= rule.max
  ELSE IF dim = "area"
  THEN rule.min * AreaUnit <= value /\ value <= rule.max * AreaUnit
  ELSE rule.value = value

\* the listing has no value in the dimension
Absent(dim, value) == IF dim = "direction" THEN value = NoneStr ELSE value = None

\* the rules of the dimension of the lookup called, and those that match
CalledRules == load_adjustments(adjustments_file)[call.dim]
CalledHits ==
  {n \in DOMAIN CalledRules : RuleMatches(call.dim, CalledRules[n], call.value)}

\* C12: the lookup of each of the nine dimensions returns the factor of the
\* first rule, in configured order, that matches the listing value, also when
\* several rules match, and 1.0 when the value is absent, the dimension has no
\* rules or no rule matches.
C12_FirstMatchingRule ==
  call.fn = "lookup" =>
    IF Absent(call.dim, call.value) \/ CalledHits = {}
    THEN result.factor = Neutral
    ELSE \E n \in CalledHits :
           /\ \A m \in CalledHits : n <= m
           /\ result.factor = CalledRules[n].factor

\* C12 witness: a lookup of a numeric dimension where two rules with
\* different factors match, which returned the first rule's factor.
C12_Witness ==
  /\ call.fn = "lookup"
  /\ call.dim \in RangeDimensions \cup {"area"}
  /\ Cardinality(CalledHits) = 2
  /\ CalledRules[1].factor # CalledRules[2].factor
  /\ result.factor = CalledRules[1].factor

\* C13: with no adjustment file, or with every rule list empty, a listing the
\* run updates gets nine factors of 1.0, an adjusted market price equal to the
\* market price, and the score of the unadjusted market price (to two
\* decimal places).
C13_NoRulesIsNeutral ==
  (/\ call.fn = "score_row"
   /\ (~adjustments_file.exists \/ adjustments_file.rules = EmptyRules)
   /\ ~result.skip) =>
    LET set == result.set
        m == set.market_price
        a == call.row.asking_price
    IN  /\ \A f \in FactorFields : set[f] = Neutral
        /\ set.adjusted_market_price = m
        /\ m > 0
        /\ 2 * Abs(set.deal_score * m - (m - a) * 10000) <= m

\* C13 witness: without an adjustment file, the loop body updated a listing
\* that has a walk time, a floor, a direction and a pet flag.
C13_Witness ==
  /\ call.fn = "score_row"
  /\ ~adjustments_file.exists
  /\ ~result.skip
  /\ call.row.minutes_to_station # None
  /\ call.row.floor # None
  /\ call.row.direction # NoneStr
  /\ call.row.pet_allowed # None
  /\ result.set.deal_score # 0

\* C14: calc_deal_score returns 0.0, with no division, whenever the adjusted
\* market price is <= 0, whatever the asking price; so does the run for a
\* listing whose factors make the adjusted market price <= 0.
C14_NonPositiveAdjustedScoresZero ==
  /\ (call.fn = "calc_deal_score" /\ call.adjusted_market_price <= 0) =>
       result.score = <<0, 1>>
  /\ (call.fn = "score_row" /\ ~result.skip
        /\ result.set.adjusted_market_price <= 0) =>
       result.set.deal_score = 0

\* C14 witness: the loop body updated a listing whose negative direction
\* factor made the adjusted market price negative.
C14_Witness ==
  /\ call.fn = "score_row"
  /\ ~result.skip
  /\ result.set.direction_factor < 0
  /\ result.set.adjusted_market_price < 0
  /\ call.row.asking_price > 0

\* ------------------------------------------ the classifiers called directly
\* The building years and the floor areas the classifiers are called with:
\* every year from 1920 to 2030, every area from 0 to 90 m2 in steps of
\* 1/AreaUnit m2, and None.
BracketYears == {None} \cup (1920..2030)
BracketAreas == {None} \cup (0..(90 * AreaUnit))

InitBrackets ==
  /\ transactions = EmptyTable
  /\ current_year \in Years
  /\ adjustments_file = [exists |-> FALSE, rules |-> EmptyRules]
  /\ listings = << >>
  /\ pc = "idle"
  /\ adjustments = EmptyRules
  /\ rows = << >>
  /\ i = 0
  /\ updated = 0
  /\ skipped = 0
  /\ errors = 0
  /\ pending = << >>
  /\ returned = NotCalled
  /\ stable_runs = 0
  /\ call = NoCall
  /\ result = Returns(None, None, None)
  /\ ConcIdle

\* a call of get_age_bracket
CallAgeBracket(building_year) ==
  /\ call = NoCall
  /\ call' = [fn |-> "get_age_bracket", building_year |-> building_year]
  /\ result' = [bracket |-> get_age_bracket(building_year, current_year)]
  /\ UNCHANGED <<concVars, storeVars, runVars>>

\* a call of get_area_bracket
CallAreaBracket(area) ==
  /\ call = NoCall
  /\ call' = [fn |-> "get_area_bracket", area |-> area]
  /\ result' = [bracket |-> get_area_bracket(area)]
  /\ UNCHANGED <<concVars, storeVars, runVars>>

NextBrackets ==
  \/ \E y \in BracketYears : CallAgeBracket(y)
  \/ \E a \in BracketAreas : CallAreaBracket(a)

SpecBrackets == InitBrackets /\ [][NextBrackets]_vars

\* The bands in ascending order.
AgeBands == <<"0-10", "11-20", "21-30", "31+">>
AreaBands == <<"40-50", "51-60", "61-70", "71-80", "81+">>

\* the position of a band in its order
BandRank(bands, b) == CHOOSE n \in DOMAIN bands : bands[n] = b

IsBand(bands, b) == \E n \in DOMAIN bands : bands[n] = b

\* C24: get_age_bracket maps an absent year to no bracket and a present year
\* to the one band its age lies in (0-10, 11-20, 21-30, 31+); get_area_bracket
\* maps an absent area and an area below 40 to no bracket and an area >= 40 to
\* one of five bands; a larger age or area never gets a lower band.
C24_ClassifiersTotalMonotonic ==
  /\ call.fn = "get_age_bracket" =>
       IF call.building_year = None THEN result.bracket = NoneStr
       ELSE LET age == current_year - call.building_year
            IN  /\ IsBand(AgeBands, result.bracket)
                /\ result.bracket = "0-10" <=> age <= 10
                /\ result.bracket = "11-20" <=> (11 <= age /\ age <= 20)
                /\ result.bracket = "21-30" <=> (21 <= age /\ age <= 30)
                /\ result.bracket = "31+" <=> 31 <= age
                /\ \A y \in BracketYears \ {None} :
                     y <= call.building_year =>
                       BandRank(AgeBands, get_age_bracket(y, current_year))
                         >= BandRank(AgeBands, result.bracket)
  /\ call.fn = "get_area_bracket" =>
       IF call.area = None \/ call.area < 40 * AreaUnit
       THEN result.bracket = NoneStr
       ELSE /\ IsBand(AreaBands, result.bracket)
            /\ \A a \in BracketAreas \ {None} :
                 a >= call.area =>
                   /\ IsBand(AreaBands, get_area_bracket(a))
                   /\ BandRank(AreaBands, get_area_bracket(a))
                        >= BandRank(AreaBands, result.bracket)

\* C24 witness: a building of age 10 classified in the band 0-10.
C24_Witness ==
  /\ call.fn = "get_age_bracket"
  /\ call.building_year # None
  /\ current_year - call.building_year = 10
  /\ result.bracket = "0-10"

\* C29: the classifiers agree with the ranges the queries use: a floor area
\* classified in a band lies within get_area_range of that band, a building
\* year classified in a band lies within get_age_range of that band.
C29_BracketWithinRange ==
  /\ (call.fn = "get_area_bracket" /\ result.bracket # NoneStr) =>
       LET ar == get_area_range(result.bracket)
       IN  ar[1] <= call.area /\ call.area <= ar[2]
  /\ (call.fn = "get_age_bracket" /\ result.bracket # NoneStr) =>
       LET yr == get_age_range(result.bracket, current_year)
       IN  yr[1] <= call.building_year /\ call.building_year <= yr[2]

\* --------------------------------------------- an outlier among comparables
\* Comparable sets of 3 to 8 transactions of one ward and age bracket, with
\* up to two transactions at each of four unit prices.
SamplePrices == {100, 200, 300, 1000}

SampleTables ==
  { [k \in {Tx("X", NoneStr, 2020, 45 * AreaUnit, p) :
              p \in {q \in SamplePrices : c[q] > 0}} |-> c[k.unit_price]] :
      c \in {d \in [SamplePrices -> 0..2] : SumOver(SamplePrices, d) >= 3} }

InitOutlier ==
  /\ transactions \in SampleTables
  /\ current_year = StartYear
  /\ adjustments_file = [exists |-> FALSE, rules |-> EmptyRules]
  /\ listings = << >>
  /\ pc = "idle"
  /\ adjustments = EmptyRules
  /\ rows = << >>
  /\ i = 0
  /\ updated = 0
  /\ skipped = 0
  /\ errors = 0
  /\ pending = << >>
  /\ returned = NotCalled
  /\ stable_runs = 0
  /\ call = NoCall
  /\ result = Returns(None, None, None)
  /\ ConcIdle

\* The unit prices of the ward-wide query of the age bracket 0-10, which the
\* resolver takes the median of at tier 4 (calc_market_price.py 195-198).
WardPrices ==
  LET yr == get_age_range("0-10", current_year)
  IN  query_unit_prices(transactions, "X", NoneStr, yr[1], yr[2], None, None)

PriceSum(prices) ==
  SumOver(DOMAIN prices, [p \in DOMAIN prices |-> p * prices[p]])

\* save_transactions of one record of 45 m2 whose unit price p lies above
\* the highest or below the lowest unit price of the comparable set
\* (fetch_reinfolib.py 107-145); call keeps the set as it was before
AddOutlier(p) ==
  /\ \/ \A q \in DOMAIN WardPrices : p > q
     \/ \A q \in DOMAIN WardPrices : p < q
  /\ BagSize(transactions) + 1 <= MaxTransactions
  /\ transactions' =
       BagAdd(transactions, TxOfApi(Api("X", p * 45, 45 * AreaUnit, 2020)), 1)
  /\ call' = [fn |-> "save_transactions", unit_price |-> p,
              before |-> WardPrices]
  /\ Touch
  /\ UNCHANGED <<concVars, current_year, adjustments_file, listings, pc,
                 adjustments, rows, i, updated, skipped, errors, pending,
                 returned, result>>

NextOutlier == \E p \in {10, 50, 2000, 9000} : AddOutlier(p)

SpecOutlier == InitOutlier /\ [][NextOutlier]_vars

\* an outlier was added to a comparable set of at least 3 unit prices
OutlierAdded == call.fn = "save_transactions" /\ BagSize(call.before) >= 3

\* C25 as claimed: adding one outlier to a comparable set of at least 3 unit
\* prices changes the median by less than it changes the mean.
\* (|m' - m| < |s'/(n+1) - s/n|, multiplied by n (n + 1).)
C25_MedianMovesLessThanMean ==
  OutlierAdded =>
    LET n == BagSize(call.before)
    IN  Abs(median(WardPrices) - median(call.before)) * n * (n + 1)
          < Abs(n * PriceSum(WardPrices) - (n + 1) * PriceSum(call.before))

\* C25 amended: adding one outlier to a comparable set of at least 3 unit
\* prices leaves the median within the lowest and the highest unit price of
\* the set, whatever the outlier's value, and moves it, if at all, to the
\* outlier's side.
C25_MedianStaysWithinSet ==
  OutlierAdded =>
    LET old == DOMAIN call.before
        m == median(call.before)
        m2 == median(WardPrices)
    IN  /\ \E q \in old : q <= m2
        /\ \E q \in old : m2 <= q
        /\ IF \A q \in old : call.unit_price > q THEN m2 >= m ELSE m2 <= m

\* C25 witness: the outlier 9000 was added to a comparable set of exactly 3
\* unit prices, and the median changed.
C25_Witness ==
  /\ OutlierAdded
  /\ call.unit_price = 9000
  /\ BagSize(call.before) = 3
  /\ median(WardPrices) # median(call.before)

\* ------------------------------------------------ the score and the counts
\* C15: the deal score a run writes for a listing with an adjusted market
\* price > 0 is (adjusted_market_price - asking_price) /
\* adjusted_market_price * 100 to two decimal places, taken from the
\* adjusted, not the raw, market price.
C15_ScoreFromAdjustedPrice ==
  \A id \in DOMAIN pending :
    LET ask == RowOf(id).asking_price
        adj == pending[id].adjusted_market_price
        score == pending[id].deal_score
    IN  adj > 0 => 2 * Abs(score * adj - (adj - ask) * 10000) <= adj

\* C15 witness: a run wrote a non-zero score for a listing whose adjusted
\* market price differs from its market price.
C15_Witness ==
  \E id \in DOMAIN pending :
    /\ pending[id].adjusted_market_price > 0
    /\ pending[id].adjusted_market_price # pending[id].market_price
    /\ pending[id].deal_score # 0

\* C17: the counts a completed run returns partition the active listings it
\* read at its start: updated + skipped + errored is their number, and
\* updated is the number of listings the run issued an UPDATE for.
C17_CountsPartitionActive ==
  [][Completes =>
       /\ returned'[1] + returned'[2] + returned'[3] = Len(rows)
       /\ Len(rows) =
            Cardinality({id \in DOMAIN listings : listings[id].status = "active"})
       /\ returned'[1] = Cardinality(DOMAIN pending)]_vars

\* C17 witness: a run returned one updated and one skipped listing, none
\* errored.
C17_Witness ==
  /\ pc = "idle"
  /\ returned = <<1, 1, 0>>
  /\ Cardinality(DOMAIN listings) = 2

\* ------------------------------------------------------ the ranking query
\* A listing row with a status and a deal score; a scored one has the other
\* derived columns of a tier-4 estimate with neutral factors.
RankRow(status, score) ==
  Listing("Y", 24774, 45 * AreaUnit + 1, 2016, 5, 3, "S", 50, 10, 1)
    @@ [status |-> status]
    @@ IF score = None THEN NoDerived
       ELSE [f \in DerivedFields |->
               IF f = "deal_score" THEN score
               ELSE IF f \in FactorFields THEN Neutral
               ELSE IF f = "fallback_level" THEN 4
               ELSE 22750]

\* WHERE status = 'active' AND deal_score IS NOT NULL: the ids selected
RankSelected(table) ==
  {id \in DOMAIN table :
     table[id].status = "active" /\ table[id].deal_score # None}

Min(a, b) == IF a <= b THEN a ELSE b

\* ORDER BY deal_score DESC LIMIT ? (calc_deal_score.py 297-309): the
\* sequences of ids the query may return.  The statement names no second
\* sort key, so SQL leaves the order of rows of equal deal_score open.
RankedOrders(table, limit) ==
  LET sel == RankSelected(table)
      k == Min(limit, Cardinality(sel))
  IN  {s \in [1..k -> sel] :
         /\ \A m, n \in 1..k : m # n => s[m] # s[n]
         /\ \A m, n \in 1..k :
              m < n => table[s[m]].deal_score >= table[s[n]].deal_score
         /\ \A id \in sel :
              (\A n \in 1..k : s[n] # id) =>
                \A n \in 1..k : table[s[n]].deal_score >= table[id].deal_score}

InitRanking ==
  /\ transactions = EmptyTable
  /\ current_year = StartYear
  /\ adjustments_file = [exists |-> FALSE, rules |-> EmptyRules]
  /\ listings \in [1..3 -> {RankRow(st, sc) : st \in {"active", "sold"},
                                               sc \in {None, 0, 833}}]
  /\ pc = "idle"
  /\ adjustments = EmptyRules
  /\ rows = << >>
  /\ i = 0
  /\ updated = 0
  /\ skipped = 0
  /\ errors = 0
  /\ pending = << >>
  /\ returned = NotCalled
  /\ stable_runs = 0
  /\ call = NoCall
  /\ result = Returns(None, None, None)
  /\ ConcIdle

\* calc_deal_score.get_listings_by_score(limit): the ids of the rows
\* returned, in order
get_listings_by_score(limit) ==
  /\ call = NoCall
  /\ call' = [fn |-> "get_listings_by_score", limit |-> limit]
  /\ \E s \in RankedOrders(listings, limit) : result' = [ids |-> s]
  /\ UNCHANGED <<concVars, storeVars, runVars>>

NextRanking == \E limit \in {1, 2, 50} : get_listings_by_score(limit)

SpecRanking == InitRanking /\ [][NextRanking]_vars

Aborts == pc = "loop" /\ pc' = "idle" /\ returned' \in {Raised, Interrupted}

\* C20: a run interrupted or aborted anywhere in its loop leaves in the
\* table, for every listing, either the derived fields it had before the
\* run or the complete set the run computed, never a mix; and the complete
\* run that follows writes what a run not preceded by an interruption
\* writes: the full set computed for each listing it scores, nothing for
\* the listings it skips.
C20_InterruptionKeepsSetsWhole ==
  [][/\ Aborts =>
          \A id \in DOMAIN listings :
            \/ \A f \in DerivedFields : listings'[id][f] = listings[id][f]
            \/ /\ id \in DOMAIN pending
               /\ \A f \in DerivedFields : listings'[id][f] = pending[id][f]
     /\ (Completes /\ returned \in {Raised, Interrupted}) =>
          \A n \in DOMAIN rows :
            LET r == score_row(rows[n], load_adjustments(adjustments_file),
                               transactions, current_year)
                id == rows[n].id
            IN  \A f \in DerivedFields :
                  listings'[id][f] = IF r.skip THEN listings[id][f] ELSE r.set[f]
    ]_vars

\* C20 witness: after an interrupted run, the next run has gone through all
\* its listings, updated one and skipped one, and is about to commit.
C20_Witness ==
  /\ returned = Interrupted
  /\ pc = "loop"
  /\ i > Len(rows)
  /\ updated >= 1
  /\ skipped >= 1

\* ------------------------------------ the run beside the ingesting scripts
\* SQLite lets one connection write at a time: a connection's first INSERT
\* or UPDATE takes the write lock, which it keeps until it commits or is
\* closed; another connection's write waits DB_TIMEOUT for the lock and then
\* raises.  Readers are not blocked (WAL) and see what is committed.

\* A scraped listing: its suumo_id and its scraped attributes.
Scraped(suumo_id, data) == [suumo_id |-> suumo_id, data |-> data]

\* The batches passed to save_listings: a changed price and a missing one for
\* stored listings; an unchanged price and a listing not yet stored.
ScrapeBatches ==
  { << Scraped("s1", Listing(NoneStr, 20000, 45 * AreaUnit + 1, 2016, 7, None,
                             NoneStr, None, None, None)),
       Scraped("s2", Listing("Y", None, 45 * AreaUnit + 1, 2016, 5, 3, "S", 50,
                             10, 1)) >>,
    << Scraped("s2", Listing("Y", 24774, 45 * AreaUnit + 1, 2016, 5, 3, "S", 50,
                             10, 1)),
       Scraped("s3", Listing(NoneStr, 22749, 45 * AreaUnit + 1, 2016, None, None,
                             NoneStr, None, None, None)) >> }

\* What column source holds in a row save_listings inserted: its INSERT does
\* not name the column.
SourceDefault == "suumo"

\* The columns by which the scraper finds and tracks a row.
Tracked(suumo_id, source) ==
  [suumo_id |-> suumo_id, source |-> source, previous_price |-> None]

\* The store the processes start on: two scraped listings and a listing
\* imported by hand that has no building year, none ever scored, no
\* transaction.
ConcListings ==
  [id \in 1..3 |->
     (IF id = 1
      THEN Listing(NoneStr, 22749, 45 * AreaUnit + 1, 2016, None, None, NoneStr,
                   None, None, None) @@ Tracked("s1", "suumo")
      ELSE IF id = 2
      THEN Listing("Y", 24774, 45 * AreaUnit + 1, 2016, 5, 3, "S", 50, 10, 1)
             @@ Tracked("s2", "suumo")
      ELSE Listing("Y", 25000, 45 * AreaUnit + 1, None, 5, 3, "S", 50, 10, 1)
             @@ Tracked("m1", "manual"))
       @@ [status |-> "active"] @@ NoDerived]

ConcBatchSize == 10

\* COALESCE(?, column)
Coalesce(new, none, old) == IF new = none THEN old ELSE new

\* if old_price and new_price and old_price != new_price
PriceChanged(old_price, new_price) ==
  TruthyNum(old_price) /\ TruthyNum(new_price) /\ old_price # new_price

\* The history row holding the new price.
PriceHistoryRowsNew(listing_id, old_price, new_price) ==
  IF PriceChanged(old_price, new_price)
  THEN << [listing_id |-> listing_id, price |-> new_price] >>
  ELSE << >>

\* INSERT INTO price_history (listing_id, price, recorded_at) of a pass over
\* a stored listing (scrape_suumo.py 523-528): the rows inserted
PriceHistoryRows(listing_id, old_price, new_price) ==
  IF PriceChanged(old_price, new_price)
  THEN << [listing_id |-> listing_id, price |-> old_price] >>
  ELSE << >>

\* The SET clause of save_listings for a listing already in the table
\* (scrape_suumo.py 546-596): the price and the previous price when the price
\* changed, the scraped attributes where the scrape has them, status 'active'
ScrapeUpdate(old, data) ==
  [asking_price |->
     IF PriceChanged(old.asking_price, data.asking_price)
     THEN data.asking_price ELSE old.asking_price,
   previous_price |->
     IF PriceChanged(old.asking_price, data.asking_price)
     THEN old.asking_price ELSE old.previous_price,
   station_name |-> Coalesce(data.station_name, NoneStr, old.station_name),
   minutes_to_station |->
     Coalesce(data.minutes_to_station, None, old.minutes_to_station),
   floor |-> Coalesce(data.floor, None, old.floor),
   total_floors |-> Coalesce(data.total_floors, None, old.total_floors),
   direction |-> Coalesce(data.direction, NoneStr, old.direction),
   status |-> "active"]

\* The row save_listings inserts for a new listing (scrape_suumo.py 598-625):
\* the columns of the INSERT, the others NULL or their default
ScrapeInsert(suumo_id, data) ==
  [f \in RawFields |->
     IF f \in {"total_units", "pet_allowed", "good_view", "good_sunlight"}
     THEN None ELSE data[f]]
    @@ Tracked(suumo_id, SourceDefault)
    @@ [status |-> "active"] @@ NoDerived

\* The table as the connection of save_listings sees it: what is committed
\* and its own writes
ScrapeView ==
  [id \in DOMAIN listings \cup DOMAIN swrites |->
     IF id \in DOMAIN swrites
     THEN (IF id \in DOMAIN listings
           THEN SetColumns(listings[id], swrites[id]) ELSE swrites[id])
     ELSE listings[id]]

\* SELECT id, asking_price, ... FROM listings WHERE suumo_id = ?
\* (scrape_suumo.py 513-517): the ids of the rows found
Existing(view, suumo_id) ==
  {id \in DOMAIN view : suumo_id # NoneStr /\ view[id].suumo_id = suumo_id}

\* The writes of one pass of save_listings over the scraped listing item:
\* the row written, its columns, and the price_history rows inserted
ScrapePass(view, item) ==
  LET found == Existing(view, item.suumo_id)
      id == IF found # {} THEN CHOOSE k \in found : TRUE
            ELSE Cardinality(DOMAIN view) + 1
  IN  [id |-> id,
       set |-> IF found # {} THEN ScrapeUpdate(view[id], item.data)
               ELSE ScrapeInsert(item.suumo_id, item.data),
       history |-> IF found # {}
                   THEN PriceHistoryRows(id, view[id].asking_price,
                                         item.data.asking_price)
                   ELSE << >>]

\* save_listings writing a listing without taking the write lock.
ScrapeSaveNoLock ==
  /\ spc = "loop"
  /\ sbatch # << >>
  /\ LET w == ScrapePass(ScrapeView, Head(sbatch))
     IN  /\ swrites' = [k \in DOMAIN swrites \cup {w.id} |->
                          IF k = w.id THEN w.set ELSE swrites[k]]
         /\ shistory' = shistory \o w.history
  /\ sbatch' = Tail(sbatch)
  /\ UNCHANGED <<storeVars, runVars, resolverVars, writer,
                 start_transactions, spc, price_history>>

\* The UPDATE marking every row with a suumo_id.
SoldMarkedAnySource(table, scraped_suumo_ids) ==
  LET active_ids ==
        {table[id].suumo_id :
           id \in {k \in DOMAIN table : table[k].status = "active"}}
      missing_ids == active_ids \ scraped_suumo_ids
  IN  [id \in DOMAIN table |->
         IF table[id].suumo_id \in missing_ids
         THEN [table[id] EXCEPT !.status = "sold"] ELSE table[id]]

\* mark_sold_listings (scrape_suumo.py 654-670): the table after its UPDATE
SoldMarked(table, scraped_suumo_ids) ==
  LET active_ids ==
        {table[id].suumo_id :
           id \in {k \in DOMAIN table : /\ table[k].status = "active"
                                        /\ table[k].source = "suumo"}}
      missing_ids == active_ids \ scraped_suumo_ids
  IN  [id \in DOMAIN table |->
         IF table[id].suumo_id \in missing_ids
         THEN [table[id] EXCEPT !.status = "sold"] ELSE table[id]]

InitConcurrent ==
  /\ transactions = EmptyTable
  /\ current_year = StartYear
  /\ adjustments_file = [exists |-> FALSE, rules |-> EmptyRules]
  /\ listings = ConcListings
  /\ pc = "idle"
  /\ adjustments = EmptyRules
  /\ rows = << >>
  /\ i = 0
  /\ updated = 0
  /\ skipped = 0
  /\ errors = 0
  /\ pending = << >>
  /\ returned = NotCalled
  /\ stable_runs = 0
  /\ call = NoCall
  /\ result = Returns(None, None, None)
  /\ ConcIdle

\* fetch_reinfolib.save_transactions run by another process: it takes the
\* write lock at its first INSERT and commits (lines 107-145)
IngestTransactions(t) ==
  /\ writer = "none"
  /\ BagSize(transactions) + ConcBatchSize <= MaxTransactions
  /\ transactions' = BagAdd(transactions, TxOfApi(t), ConcBatchSize)
  /\ Touch
  /\ UNCHANGED <<current_year, adjustments_file, listings, pc, adjustments,
                 rows, i, updated, skipped, errors, pending, returned,
                 resolverVars, concVars>>

\* scrape_suumo.mark_sold_listings(scraped_suumo_ids) (lines 638-674): its
\* SELECT, its UPDATE, which needs the write lock when a listing is missing,
\* and its commit
mark_sold_listings(scraped_suumo_ids) ==
  /\ SoldMarked(listings, scraped_suumo_ids) # listings => writer = "none"
  /\ listings' = SoldMarked(listings, scraped_suumo_ids)
  /\ call' = [fn |-> "mark_sold_listings",
              scraped_suumo_ids |-> scraped_suumo_ids]
  /\ Touch
  /\ UNCHANGED <<transactions, current_year, adjustments_file, pc,
                 adjustments, rows, i, updated, skipped, errors, pending,
                 returned, result, concVars>>

\* scrape_suumo.save_listings(batch) begins (lines 504-506)
ScrapeBegin(batch) ==
  /\ spc = "idle"
  /\ Cardinality(DOMAIN listings)
       + Cardinality({n \in DOMAIN batch :
                        Existing(listings, batch[n].suumo_id) = {}})
       <= MaxListings + 2
  /\ spc' = "loop"
  /\ sbatch' = batch
  /\ swrites' = << >>
  /\ shistory' = << >>
  /\ UNCHANGED <<storeVars, runVars, resolverVars, writer,
                 start_transactions, price_history>>

\* one pass of its loop (lines 507-627): the SELECT by suumo_id, then the
\* INSERT into price_history and the UPDATE, or the INSERT, which take or
\* already hold the write lock
ScrapeSave ==
  /\ spc = "loop"
  /\ sbatch # << >>
  /\ writer \in {"none", "scrape"}
  /\ writer' = "scrape"
  /\ LET w == ScrapePass(ScrapeView, Head(sbatch))
     IN  /\ swrites' = [k \in DOMAIN swrites \cup {w.id} |->
                          IF k = w.id THEN w.set ELSE swrites[k]]
         /\ shistory' = shistory \o w.history
  /\ sbatch' = Tail(sbatch)
  /\ UNCHANGED <<storeVars, runVars, resolverVars, start_transactions, spc,
                 price_history>>

\* a pass whose write finds the lock held past DB_TIMEOUT: the exception is
\* caught and the loop goes on (lines 629-631)
ScrapeSaveFails ==
  /\ spc = "loop"
  /\ sbatch # << >>
  /\ writer = "score"
  /\ sbatch' = Tail(sbatch)
  /\ UNCHANGED <<storeVars, runVars, resolverVars, writer,
                 start_transactions, spc, swrites, price_history, shistory>>

\* conn.commit() (line 633)
ScrapeCommit ==
  /\ spc = "loop"
  /\ sbatch = << >>
  /\ listings' = ScrapeView
  /\ price_history' = price_history \o shistory
  /\ writer' = (IF writer = "scrape" THEN "none" ELSE writer)
  /\ swrites' = << >>
  /\ shistory' = << >>
  /\ spc' = "idle"
  /\ Touch
  /\ UNCHANGED <<transactions, current_year, adjustments_file, pc,
                 adjustments, rows, i, updated, skipped, errors, pending,
                 returned, resolverVars, start_transactions, sbatch>>

NextConcurrent ==
  \/ \E t \in ApiRecords : IngestTransactions(t)
  \/ \E batch \in ScrapeBatches : ScrapeBegin(batch)
  \/ ScrapeSave
  \/ ScrapeSaveFails
  \/ ScrapeCommit
  \/ ScoreBegin
  \/ ScoreSkip
  \/ ScoreUpdate
  \/ ScoreWriteFails
  \/ ScoreCommit

SpecConcurrent == InitConcurrent /\ [][NextConcurrent]_vars

\* ------------------------------------------- the scraper and the scoring run
\* The scraper's scripts and the scoring run, run one after another on a
\* store that holds ten transactions of the listings' ward.
ScraperTransactions ==
  BagAdd(EmptyTable, TxOfApi(Api("X", 22500, 45 * AreaUnit, 2020)),
         ConcBatchSize)

InitScraper ==
  /\ transactions = ScraperTransactions
  /\ current_year = StartYear
  /\ adjustments_file = [exists |-> FALSE, rules |-> EmptyRules]
  /\ listings = ConcListings
  /\ pc = "idle"
  /\ adjustments = EmptyRules
  /\ rows = << >>
  /\ i = 0
  /\ updated = 0
  /\ skipped = 0
  /\ errors = 0
  /\ pending = << >>
  /\ returned = NotCalled
  /\ stable_runs = 0
  /\ call = NoCall
  /\ result = Returns(None, None, None)
  /\ ConcIdle

NextScraper ==
  \* the sets of suumo_id passed to mark_sold_listings
  \/ \E S \in { {"s1"}, {"s2", "s3"}, {"s1", "s2", "s3"} } :
        ~Busy /\ spc = "idle" /\ mark_sold_listings(S)
  \/ \E batch \in ScrapeBatches : ~Busy /\ ScrapeBegin(batch)
  \/ ScrapeSave
  \/ ScrapeCommit
  \/ spc = "idle" /\ ScoreBegin
  \/ ScoreSkip
  \/ ScoreUpdate
  \/ ScoreWriteFails
  \/ ScoreCommit

SpecScraper == InitScraper /\ [][NextScraper]_vars

\* C18: while one of the two batches, the scoring run and save_listings, has
\* written a listing row and not yet committed, the other writes no listing
\* row.
C18_WritesDoNotInterleave ==
  [][/\ pending # << >> => swrites' = swrites
     /\ swrites # << >> => (pending' = pending \/ pending' = << >>)
     /\ ~(pending' # << >> /\ swrites' # << >>)]_vars

\* C18 witness: the scoring run has written a listing and not committed
\* while save_listings is in its loop with a listing still to save.
C18_Witness ==
  /\ pc = "loop"
  /\ pending # << >>
  /\ spc = "loop"
  /\ sbatch # << >>

\* C19: every listing a run writes is computed from the rules loaded and
\* from table transactions as it was when the run began, even when
\* save_transactions commits during the run.
C19_SingleSnapshot ==
  \A id \in DOMAIN pending :
    LET r == score_row(RowOf(id), adjustments, start_transactions, current_year)
    IN  ~r.skip /\ r.set = pending[id]

\* ------------------------------------------ what the scoring run may change

\* C21: a run of update_listing_scores changes only derived fields, and only
\* of listings that were active when it fetched its rows: table transactions,
\* table price_history, the raw attributes, the status and the tracking
\* columns of every listing and all columns of the other listings stay.
C21_RunChangesDerivedOnly ==
  [][((pc = "loop" \/ pc' = "loop") /\ (pc' # pc \/ i' # i)) =>
       /\ transactions' = transactions
       /\ price_history' = price_history
       /\ DOMAIN listings' = DOMAIN listings
       /\ \A id \in DOMAIN listings :
            /\ \A f \in DOMAIN listings[id] \ DerivedFields :
                 listings'[id][f] = listings[id][f]
            /\ id \notin {rows[n].id : n \in DOMAIN rows} =>
                 listings'[id] = listings[id]
       /\ pc = "idle" =>
            \A n \in DOMAIN rows' : listings[rows'[n].id].status = "active"
       /\ pc = "loop" /\ pc' = "loop" => rows' = rows]_vars

\* C21 witness: a run has updated a listing while another listing, sold, has
\* no derived field set.
C21_Witness ==
  /\ pc = "idle"
  /\ returned \notin {NotCalled, Raised, Interrupted}
  /\ returned[1] >= 1
  /\ \E id \in DOMAIN listings : Scored(listings[id])
  /\ \E id \in DOMAIN listings :
       listings[id].status = "sold" /\ ~Scored(listings[id])

\* ------------------------------------------------ the status of a listing
\* a step of mark_sold_listings
MarksSold ==
  /\ call'.fn = "mark_sold_listings"
  /\ pc' = pc /\ i' = i /\ spc' = spc /\ sbatch' = sbatch
  /\ transactions' = transactions

\* a pass of save_listings that writes, and its commit
Saves ==
  /\ spc = "loop" /\ sbatch # << >> /\ sbatch' = Tail(sbatch)
  /\ writer' = "scrape"
ScrapeCommits == spc = "loop" /\ spc' = "idle"

C27_PriceChangeIsRecorded ==
  [][/\ Saves =>
          \A id \in DOMAIN ScrapeView :
            ScrapeView[id].suumo_id = Head(sbatch).suumo_id =>
              LET old == ScrapeView[id]
                  new_price == Head(sbatch).data.asking_price
              IN  /\ id \in DOMAIN swrites'
                  /\ IF /\ new_price # None
                        /\ old.asking_price # None
                        /\ new_price # old.asking_price
                     THEN /\ shistory' =
                               Append(shistory, [listing_id |-> id,
                                                 price |-> old.asking_price])
                          /\ swrites'[id].previous_price = old.asking_price
                          /\ swrites'[id].asking_price = new_price
                     ELSE /\ shistory' = shistory
                          /\ swrites'[id].previous_price = old.previous_price
                          /\ swrites'[id].asking_price = old.asking_price
     /\ ScrapeCommits =>
          /\ price_history' = price_history \o shistory
          /\ \A id \in DOMAIN swrites \cap DOMAIN listings :
               /\ listings'[id].asking_price = swrites[id].asking_price
               /\ listings'[id].previous_price = swrites[id].previous_price
    ]_vars

\* C27 witness: table price_history holds the old price of a listing whose
\* price changed, and a later pass over a listing whose scraped price is
\* missing has inserted no row.
C27_Witness ==
  /\ Len(price_history) = 1
  /\ listings[price_history[1].listing_id].previous_price
       = price_history[1].price
  /\ listings[price_history[1].listing_id].asking_price
       # price_history[1].price
  /\ spc = "loop"
  /\ sbatch = << >>
  /\ Cardinality(DOMAIN swrites) = 2
  /\ shistory = << >>

\* C28: in every committed state each listing with a deal score has the
\* score of its stored asking price and adjusted market price, to two
\* decimal places.
C28_ScoreMatchesStoredPrices ==
  \A id \in DOMAIN listings :
    LET ask == listings[id].asking_price
        adj == listings[id].adjusted_market_price
        score == listings[id].deal_score
    IN  (score # None /\ adj > 0) =>
          2 * Abs(score * adj - (adj - ask) * 10000) <= adj

====
